---- MODULE Spec2Model ----
(***************************************************************************)
(* Voting demo backend (src/main.py): the in-memory ConnectionManager      *)
(* (connect / disconnect / broadcast), the websocket endpoint ws_product,  *)
(* and the vote handler cast_vote working on the "product" collection of   *)
(* the document store.                                                     *)
(*                                                                         *)
(* cast_vote is a synchronous endpoint: every call runs in its own worker  *)
(* thread, so its store read, its store write and its hand-off of the      *)
(* broadcast to the event loop are separate steps that interleave with     *)
(* other calls.  broadcast, connect and disconnect run on the event loop:  *)
(* they interleave at every await.                                         *)
(***************************************************************************)
EXTENDS Integers, Sequences, FiniteSets, TLC

\* ----- bounds of the model -----
MaxProducts == 2
MaxCalls == 2
MaxChannels == 2

ProductIds == 1..MaxProducts
Calls == 1..MaxCalls
Channels == 1..MaxChannels

\* ----- program constants -----
VoteOption == {"auction", "buy_now", "tokenization", "raffle", "not_interested"}

Statuses ==
    {"draft", "in_voting", "vote_expired", "auction", "buy_now",
     "tokenization", "raffle", "sold", "rejected"}

DEFAULT_WINDOW_HOURS == 72

\* A product_id that ObjectId() rejects.
MalformedId == -1

\* payload.vote_start_at is Optional: NoStart is None.
NoStart == -1

\* Inputs: the clock readings of create_product and the explicit start times.
ClockReadings == {0}
StartInputs == {NoStart, 10}

\* Inputs: the options the modelled vote requests carry.
OptionInputs == {"auction", "raffle"}

VARIABLES
    store,        \* the "product" collection: _id -> document
    active,       \* ConnectionManager.active: product_id -> list of websockets
    call,         \* the cast_vote calls: position, arguments, locals, response
    ws,           \* the ws_product handlers: position and product_id
    emitted,      \* the messages handed to manager.broadcast, in start order
    disconnects,  \* per websocket, the product_ids disconnect was called with
    created       \* the create_product requests served: payload, clock, response

vars == <<store, active, call, ws, emitted, disconnects, created>>

\* ----- documents -----
NoCounts == [o \in {} |-> 0]

ZeroCounts == [o \in VoteOption |-> 0]

\* A document stored under the Product schema of schemas.py: it has a status
\* out of the documented set and no counts field.
SchemaProduct(s) ==
    [status |-> s, counts |-> NoCounts, vote_start_at |-> 0,
     vote_end_at |-> DEFAULT_WINDOW_HOURS]

\* A product whose voting is over: it kept the tallies it collected.
ClosedProduct ==
    [status |-> "vote_expired", counts |-> [ZeroCounts EXCEPT !["raffle"] = 1],
     vote_start_at |-> 0, vote_end_at |-> DEFAULT_WINDOW_HOURS]

\* A product open for voting whose counts lack some of the options.
PartialProduct ==
    [status |-> "in_voting", counts |-> [o \in {"auction", "buy_now"} |-> 0],
     vote_start_at |-> 0, vote_end_at |-> DEFAULT_WINDOW_HOURS]

NewProductEndsFromNow(start, now) ==
    [status |-> "in_voting",
     counts |-> ZeroCounts,
     vote_start_at |-> IF start = NoStart THEN now ELSE start,
     vote_end_at |-> now + DEFAULT_WINDOW_HOURS]

\* The document create_product builds.
NewProduct(start, now) ==
    LET vote_start_at == IF start = NoStart THEN now ELSE start
    IN  [status |-> "in_voting",
         counts |-> ZeroCounts,
         vote_start_at |-> vote_start_at,
         vote_end_at |-> vote_start_at + DEFAULT_WINDOW_HOURS]

\* The documents the collection may hold before the first request.
InitialProducts ==
    {SchemaProduct(s) : s \in Statuses}
        \cup {ClosedProduct, PartialProduct, NewProduct(NoStart, 0)}

\* ----- responses -----
Ok(counts) == [code |-> 200, detail |-> "ok", counts |-> counts]

HTTPException(code, detail) == [code |-> code, detail |-> detail, counts |-> NoCounts]

NoResponse == [code |-> 0, detail |-> "", counts |-> NoCounts]

\* ----- ConnectionManager -----
\* self.active.get(product_id, [])
Conns(act, product_id) ==
    IF product_id \in DOMAIN act THEN act[product_id] ELSE <<>>

Contains(seq, x) == \E i \in 1..Len(seq) : seq[i] = x

\* list.remove(x): drops the first occurrence.
Remove(seq, x) ==
    LET i == CHOOSE k \in 1..Len(seq) :
                 seq[k] = x /\ \A j \in 1..(k - 1) : seq[j] # x
    IN  SubSeq(seq, 1, i - 1) \o SubSeq(seq, i + 1, Len(seq))

connectTwice(act, product_id, websocket) ==
    [t \in (DOMAIN act) \cup {product_id} |->
        IF t = product_id
        THEN Append(Append(Conns(act, product_id), websocket), websocket)
        ELSE act[t]]

\* self.active.setdefault(product_id, []).append(websocket)
connect(act, product_id, websocket) ==
    [t \in (DOMAIN act) \cup {product_id} |->
        IF t = product_id THEN Append(Conns(act, product_id), websocket)
        ELSE act[t]]

disconnectKeepsKey(act, product_id, websocket) ==
    LET conns == Conns(act, product_id)
    IN  IF product_id \in DOMAIN act /\ Contains(conns, websocket)
        THEN [act EXCEPT ![product_id] = Remove(conns, websocket)]
        ELSE act

disconnect(act, product_id, websocket) ==
    LET conns == Conns(act, product_id)
        left == IF Contains(conns, websocket) THEN Remove(conns, websocket)
                ELSE conns
    IN  IF left = <<>> /\ product_id \in DOMAIN act
        THEN [t \in (DOMAIN act) \ {product_id} |-> act[t]]
        ELSE IF product_id \in DOMAIN act
             THEN [act EXCEPT ![product_id] = left]
             ELSE act

SnapshotSkipsLast(act, product_id) ==
    SubSeq(Conns(act, product_id), 1, Len(Conns(act, product_id)) - 1)

\* list(self.active.get(product_id, [])): the copy broadcast iterates.
Snapshot(act, product_id) == Conns(act, product_id)

AfterSendAborts(todo, sent_ok) == IF sent_ok THEN Tail(todo) ELSE <<>>

\* The rest of the iteration after one send: an exception of send_json is
\* caught inside the loop body, so the loop goes on either way.
AfterSend(todo, sent_ok) == Tail(todo)

PendingLive(todo, act, product_id) ==
    LET StillRegistered(w) == Contains(Conns(act, product_id), w)
    IN  SelectSeq(todo, StillRegistered)

\* What is left to iterate: the rest of the copy made at line 39, whatever
\* the live list has become in the meantime.
Pending(todo, act, product_id) == todo

RegistryAfterSendPrunes(act, product_id, websocket, sent_ok) ==
    IF sent_ok THEN act ELSE disconnect(act, product_id, websocket)

\* Lines 42-44: a failed send is passed over; the registry is left as it is.
RegistryAfterSend(act, product_id, websocket, sent_ok) == act

RegistryLockedByBroadcast(calls) == \A c \in DOMAIN calls : calls[c].pc # "broadcasting"

\* connect and disconnect take no lock and wait for no broadcast.
RegistryFree(calls) == TRUE

\* ----- cast_vote helpers -----
VotingActiveAlways(product) == TRUE

VotingActive(product) == product.status = "in_voting"

KnownOptionAlways(counts, option) == TRUE

KnownOption(counts, option) == option \in DOMAIN counts

IncrementDropsOthers(counts, option) ==
    [o \in (DOMAIN counts) \cup {option} |->
        IF o = option
        THEN (IF option \in DOMAIN counts THEN counts[option] ELSE 0) + 1
        ELSE 0]

IncrementOnlyVoted(counts, option) ==
    [o \in {option} |->
        (IF option \in DOMAIN counts THEN counts[option] ELSE 0) + 1]

\* counts[vote.option] = int(counts.get(vote.option, 0)) + 1
Increment(counts, option) ==
    [o \in (DOMAIN counts) \cup {option} |->
        IF o = option
        THEN (IF option \in DOMAIN counts THEN counts[option] ELSE 0) + 1
        ELSE counts[o]]

UpdateCountsMerges(st, product_id, counts) ==
    IF product_id \in DOMAIN st
    THEN [st EXCEPT ![product_id].counts =
             [o \in DOMAIN counts |->
                 IF o \in DOMAIN @ /\ @[o] > counts[o] THEN @[o] ELSE counts[o]]]
    ELSE st

UpdateCountsSkips(st, product_id, counts) == st

UpdateCountsEverywhere(st, product_id, counts) ==
    [p \in DOMAIN st |-> [st[p] EXCEPT !.counts = counts]]

\* db["product"].update_one({"_id": _id}, {"$set": {"counts": counts}})
UpdateCounts(st, product_id, counts) ==
    IF product_id \in DOMAIN st
    THEN [st EXCEPT ![product_id].counts = counts]
    ELSE st

VoteResponsePropagates(counts, broadcast_raised) ==
    IF broadcast_raised THEN HTTPException(500, "Internal Server Error")
    ELSE Ok(counts)

\* The response after the broadcast block: the try/except around it
\* swallows every exception.
VoteResponse(counts, broadcast_raised) == Ok(counts)

IdleCall ==
    [pc |-> "idle", product_id |-> 0, option |-> "", product |-> SchemaProduct("draft"),
     counts |-> NoCounts, response |-> NoResponse,
     snapshot |-> <<>>, todo |-> <<>>, attempts |-> <<>>, failed |-> {},
     raised |-> FALSE]

IdleWs == [pc |-> "idle", product_id |-> 0]

\* ----- initial state -----
InitRest ==
    /\ active = [t \in {} |-> <<>>]
    /\ call = [c \in Calls |-> IdleCall]
    /\ ws = [w \in Channels |-> IdleWs]
    /\ emitted = <<>>
    /\ disconnects = [w \in Channels |-> <<>>]
    /\ created = <<>>

\* The collection starts with one product: open for voting or closed.
Init ==
    /\ \E doc \in {NewProduct(NoStart, 0), ClosedProduct} : store = [p \in {1} |-> doc]
    /\ InitRest

\* The collection starts with one document of any documented status.
InitAnyStatus ==
    /\ \E doc \in InitialProducts : store = [p \in {1} |-> doc]
    /\ InitRest

\* ----- create_product -----
create_product(start, now) ==
    /\ Cardinality(DOMAIN store) < MaxProducts
    /\ LET pid == Cardinality(DOMAIN store) + 1
           doc == NewProduct(start, now)
       IN  /\ store' = [p \in (DOMAIN store) \cup {pid} |->
                            IF p = pid THEN doc ELSE store[p]]
           /\ created' = Append(created,
                             [start |-> start, now |-> now, id |-> pid, data |-> doc])
    /\ UNCHANGED <<active, call, ws, emitted, disconnects>>

\* ----- cast_vote -----
\* Lines 168-188: parse the id, load the document, validate, increment the
\* local copy of counts.
cast_vote_load(c, product_id, option) ==
    /\ call[c].pc = "idle"
    /\ IF c = 1 THEN TRUE ELSE call[c - 1].pc # "idle"   \* numbered as they arrive
    /\ LET args == [call[c] EXCEPT !.product_id = product_id, !.option = option]
       IN  IF product_id = MalformedId \/ product_id \notin DOMAIN store
           THEN call' = [call EXCEPT ![c] =
                    [args EXCEPT !.pc = "done",
                                 !.response = HTTPException(404, "Product not found")]]
           ELSE LET product == store[product_id]
                    loaded == [args EXCEPT !.product = product]
                IN  IF ~VotingActive(product)
                    THEN call' = [call EXCEPT ![c] =
                             [loaded EXCEPT !.pc = "done",
                                  !.response = HTTPException(400, "Voting not active")]]
                    ELSE IF ~KnownOption(product.counts, option)
                    THEN call' = [call EXCEPT ![c] =
                             [loaded EXCEPT !.pc = "done",
                                  !.response = HTTPException(400, "Invalid option")]]
                    ELSE call' = [call EXCEPT ![c] =
                             [loaded EXCEPT !.pc = "computed",
                                  !.counts = Increment(product.counts, option)]]
    /\ UNCHANGED <<store, active, ws, emitted, disconnects, created>>

\* Line 191: write the whole counts mapping back.
cast_vote_persist(c) ==
    /\ call[c].pc = "computed"
    /\ store' = UpdateCounts(store, call[c].product_id, call[c].counts)
    /\ call' = [call EXCEPT ![c].pc = "persisted"]
    /\ UNCHANGED <<active, ws, emitted, disconnects, created>>

\* Lines 194-205: anyio.from_thread.run raises before manager.broadcast runs;
\* the exception is swallowed and the call returns.
cast_vote_broadcast_raises(c) ==
    /\ call[c].pc = "persisted"
    /\ call' = [call EXCEPT ![c].pc = "done", ![c].raised = TRUE,
                            ![c].response = VoteResponse(call[c].counts, TRUE)]
    /\ UNCHANGED <<store, active, ws, emitted, disconnects, created>>

\* Lines 196-201 and 39: manager.broadcast starts on the event loop and copies
\* the list of the product's websockets.
broadcast_start(c) ==
    /\ call[c].pc = "persisted"
    /\ LET snap == Snapshot(active, call[c].product_id)
       IN  call' = [call EXCEPT ![c].pc = "broadcasting",
                                ![c].snapshot = snap, ![c].todo = snap]
    /\ emitted' = Append(emitted,
                     [product_id |-> call[c].product_id, counts |-> call[c].counts])
    /\ UNCHANGED <<store, active, ws, disconnects, created>>

\* Lines 40-44: one await ws.send_json(message); it succeeds or raises.
broadcast_send(c, sent_ok) ==
    /\ call[c].pc = "broadcasting"
    /\ Pending(call[c].todo, active, call[c].product_id) # <<>>
    /\ LET pending == Pending(call[c].todo, active, call[c].product_id)
           w == Head(pending)
       IN  /\ call' = [call EXCEPT
                  ![c].attempts = Append(@, w),
                  ![c].failed = IF sent_ok THEN @ ELSE @ \cup {w},
                  ![c].todo = AfterSend(pending, sent_ok)]
           /\ active' = RegistryAfterSend(active, call[c].product_id, w, sent_ok)
    /\ UNCHANGED <<store, ws, emitted, disconnects, created>>

\* Line 205: the broadcast is over, the call returns.
cast_vote_return(c) ==
    /\ call[c].pc = "broadcasting"
    /\ Pending(call[c].todo, active, call[c].product_id) = <<>>
    /\ call' = [call EXCEPT ![c].pc = "done",
                            ![c].response = VoteResponse(call[c].counts, FALSE)]
    /\ UNCHANGED <<store, active, ws, emitted, disconnects, created>>

\* ----- ws_product -----
\* Line 210: accept, then register.  (When accept raises, the handler ends
\* with nothing registered: no state changes.)
ws_connect(w, product_id) ==
    /\ ws[w].pc = "idle"
    /\ IF w = 1 THEN TRUE ELSE ws[w - 1].pc # "idle"     \* numbered as they open
    /\ RegistryFree(call)
    /\ active' = connect(active, product_id, w)
    /\ ws' = [ws EXCEPT ![w] = [pc |-> "receiving", product_id |-> product_id]]
    /\ UNCHANGED <<store, call, emitted, disconnects, created>>

DisconnectTopicFirst(handler) == 1

\* The product_id ws_product hands to manager.disconnect.
DisconnectTopic(handler) == handler.product_id

\* Lines 215-216: receive_text raises WebSocketDisconnect.
ws_disconnect(w) ==
    /\ ws[w].pc = "receiving"
    /\ RegistryFree(call)
    /\ active' = disconnect(active, DisconnectTopic(ws[w]), w)
    /\ disconnects' = [disconnects EXCEPT ![w] = Append(@, DisconnectTopic(ws[w]))]
    /\ ws' = [ws EXCEPT ![w].pc = "disconnected"]
    /\ UNCHANGED <<store, call, emitted, created>>

\* Lines 211-215: receive_text raises anything else (or the handler is
\* cancelled); only WebSocketDisconnect is caught, so nothing is unregistered.
ws_receive_raises(w) ==
    /\ ws[w].pc = "receiving"
    /\ ws' = [ws EXCEPT ![w].pc = "aborted"]
    /\ UNCHANGED <<store, active, call, emitted, disconnects, created>>

Next ==
    \/ \E start \in StartInputs, now \in ClockReadings : create_product(start, now)
    \/ \E c \in Calls, p \in ProductIds \cup {MalformedId}, o \in OptionInputs :
           cast_vote_load(c, p, o)
    \/ \E c \in Calls : cast_vote_persist(c)
    \/ \E c \in Calls : cast_vote_broadcast_raises(c)
    \/ \E c \in Calls : broadcast_start(c)
    \/ \E c \in Calls, sent_ok \in BOOLEAN : broadcast_send(c, sent_ok)
    \/ \E c \in Calls : cast_vote_return(c)
    \/ \E w \in Channels, p \in ProductIds : ws_connect(w, p)
    \/ \E w \in Channels : ws_disconnect(w)
    \/ \E w \in Channels : ws_receive_raises(w)

Spec == Init /\ [][Next]_vars

\* The vote handler alone, nobody subscribed: every documented status.
NextVotes ==
    \/ \E start \in StartInputs, now \in ClockReadings : create_product(start, now)
    \/ \E c \in Calls, p \in ProductIds \cup {MalformedId}, o \in VoteOption :
           cast_vote_load(c, p, o)
    \/ \E c \in Calls : cast_vote_persist(c)
    \/ \E c \in Calls : cast_vote_broadcast_raises(c)
    \/ \E c \in Calls : broadcast_start(c)
    \/ \E c \in Calls : cast_vote_return(c)

SpecVotes == InitAnyStatus /\ [][NextVotes]_vars

\* ----- properties -----

\* The step of call c that reads the document: the whole call when it is rejected.
Loads(c) == call[c].pc = "idle" /\ call'[c].pc # "idle"

\* The step of call c that writes the counts back.
Persists(c) == call[c].pc = "computed" /\ call'[c].pc = "persisted"

\* A call that has returned does nothing more.
Returned(c) == call[c].pc = "done" => call'[c] = call[c]

\* C1: when the stored counts of the product are still the ones the call
\* loaded (no other vote was written in between), the write of a vote for
\* option O leaves counts[O] exactly 1 higher, keeps every other counter and the
\* key set, and touches no other document; the call then returns those counts.
C1_VoteIncrementsByOne ==
    [][\A c \in Calls :
         LET p == call[c].product_id
             o == call[c].option
         IN  /\ (Persists(c) /\ store[p].counts = call[c].product.counts) =>
                   /\ store'[p].counts[o] = store[p].counts[o] + 1
                   /\ DOMAIN store'[p].counts = DOMAIN store[p].counts
                   /\ \A x \in (DOMAIN store[p].counts) \ {o} :
                          store'[p].counts[x] = store[p].counts[x]
                   /\ \A q \in (DOMAIN store) \ {p} : store'[q] = store[q]
             /\ (Loads(c) /\ call'[c].pc = "computed") =>
                   /\ store[call'[c].product_id].status = "in_voting"
                   /\ call'[c].option \in DOMAIN store[call'[c].product_id].counts
                   /\ call'[c].product = store[call'[c].product_id]
      ]_vars

C1_Witness ==
    \E c \in Calls :
        /\ call[c].pc = "done"
        /\ call[c].response.code = 200
        /\ call[c].option = "tokenization"
        /\ store[call[c].product_id].counts["tokenization"]
               = call[c].product.counts["tokenization"] + 1

\* C2: a vote on a product whose status is not in_voting is rejected with
\* 400 "Voting not active" in the step that loads it, and the collection is
\* the same before and after.
C2_ClosedProductRejects ==
    [][\A c \in Calls :
         /\ Returned(c)
         /\ Loads(c) =>
               LET p == call'[c].product_id
               IN  (p \in DOMAIN store /\ store[p].status # "in_voting") =>
                       /\ call'[c].pc = "done"
                       /\ call'[c].response = HTTPException(400, "Voting not active")
                       /\ store' = store
      ]_vars

C2_Witness ==
    \E c \in Calls :
        /\ call[c].pc = "done"
        /\ call[c].response = HTTPException(400, "Voting not active")
        /\ call[c].product = ClosedProduct
        /\ store[call[c].product_id] = ClosedProduct

\* C3: a vote on an in_voting product for an option that is no key of the
\* stored counts is rejected with 400 "Invalid option" in the step that loads
\* it, and the collection is the same before and after: no key added, no
\* counter changed.
C3_UnknownOptionRejects ==
    [][\A c \in Calls :
         /\ Returned(c)
         /\ Loads(c) =>
               LET p == call'[c].product_id
                   o == call'[c].option
               IN  (/\ p \in DOMAIN store
                    /\ store[p].status = "in_voting"
                    /\ o \notin DOMAIN store[p].counts) =>
                       /\ call'[c].pc = "done"
                       /\ call'[c].response = HTTPException(400, "Invalid option")
                       /\ store' = store
      ]_vars

C3_Witness ==
    \E c \in Calls :
        /\ call[c].pc = "done"
        /\ call[c].response = HTTPException(400, "Invalid option")
        /\ call[c].product = PartialProduct
        /\ call[c].option = "raffle"
        /\ store[call[c].product_id] = PartialProduct


Range(seq) == {seq[i] : i \in 1..Len(seq)}

NoDuplicates(seq) == \A i, j \in 1..Len(seq) : seq[i] = seq[j] => i = j

\* The step in which the broadcast of call c copies the registry list.
Starts(c) == call[c].pc = "persisted" /\ call'[c].pc = "broadcasting"

\* The list registered under a product_id, empty when the key is absent.
Registered(p) == IF p \in DOMAIN active THEN active[p] ELSE <<>>

\* C4: a failing send aborts nothing: at every moment of a broadcast the
\* channels already tried followed by the channels still to try are the
\* broadcast's snapshot, so when the broadcast ends every channel of the
\* snapshot has had its send attempt, wherever the failing channels stand and
\* however many fail.
C4_FailureIsolation ==
    \A c \in Calls :
        /\ call[c].pc \in {"broadcasting", "done"} =>
               /\ call[c].attempts \o call[c].todo = call[c].snapshot
               /\ call[c].failed \subseteq Range(call[c].attempts)
        /\ call[c].pc = "done" => call[c].todo = <<>>

C4_Witness ==
    \E c \in Calls :
        /\ call[c].pc = "done"
        /\ Len(call[c].snapshot) = 2
        /\ call[c].failed = {call[c].snapshot[1]}
        /\ call[c].attempts = call[c].snapshot

\* C5: a product_id is a key of ConnectionManager.active exactly when some
\* websocket is registered under it, and the list of a key is never empty; so
\* once the last websocket of a product is disconnected the key is gone.
C5_NoEmptyTopics ==
    \A t \in ProductIds :
        /\ t \in DOMAIN active => Len(active[t]) > 0
        /\ t \in DOMAIN active <=>
               \E w \in Channels :
                   ws[w].pc \in {"receiving", "aborted"} /\ ws[w].product_id = t

C5_Witness ==
    \E w \in Channels :
        /\ ws[w].pc = "disconnected"
        /\ ws[w].product_id \notin DOMAIN active
        /\ DOMAIN active # {}

\* C6: a broadcast copies exactly the list registered under its product_id
\* when it starts and makes one send attempt per channel of that copy: N
\* attempts for N registered channels, none to a channel of another product;
\* a disconnect of a registered channel shortens the list by exactly one, so
\* the next broadcast makes N-1 attempts.
C6_AttemptsMatchRegistry ==
    [][\A c \in Calls :
         /\ Starts(c) =>
               /\ call'[c].snapshot = Registered(call[c].product_id)
               /\ NoDuplicates(call'[c].snapshot)
               /\ \A w \in Range(call'[c].snapshot) :
                      ws[w].product_id = call[c].product_id
         /\ (call[c].pc = "broadcasting" /\ call'[c].pc = "done") =>
               /\ Len(call[c].attempts) = Len(call[c].snapshot)
               /\ Range(call[c].attempts) = Range(call[c].snapshot)
               /\ NoDuplicates(call[c].attempts)
         /\ \A w \in Channels :
               (ws[w].pc = "receiving" /\ ws'[w].pc = "disconnected") =>
                   /\ Len(Registered(ws[w].product_id)') =
                          Len(Registered(ws[w].product_id)) - 1
                   /\ w \notin Range(Registered(ws[w].product_id)')
      ]_vars

C6_Witness ==
    \E c1, c2 \in Calls, w \in Channels :
        /\ call[c1].pc = "done" /\ call[c2].pc = "done"
        /\ call[c1].product_id = call[c2].product_id
        /\ Len(call[c1].attempts) = 2
        /\ Len(call[c2].attempts) = 1
        /\ ws[w].pc = "disconnected"
        /\ w \in Range(call[c1].attempts)
        /\ w \notin Range(call[c2].attempts)

\* C7: a call that has written its counts only ever ends with the 200
\* response carrying the counts it wrote: with nobody subscribed, with every
\* send failing, and when handing over the broadcast raises.
C7_BroadcastNeverFailsVote ==
    [][\A c \in Calls :
         /\ Persists(c) => store'[call[c].product_id].counts = call[c].counts
         /\ call[c].pc \in {"persisted", "broadcasting"} =>
               /\ call'[c].counts = call[c].counts
               /\ call'[c].pc \in {"persisted", "broadcasting", "done"}
               /\ call'[c].pc = "done" =>
                      call'[c].response =
                          [code |-> 200, detail |-> "ok", counts |-> call[c].counts]
               /\ call'[c].pc # "done" => call'[c].response = NoResponse
      ]_vars

C7_Witness ==
    \E c1, c2 \in Calls :
        /\ call[c1].pc = "done" /\ call[c1].raised
        /\ call[c1].response.code = 200
        /\ call[c2].pc = "done" /\ ~call[c2].raised
        /\ call[c2].response.code = 200
        /\ call[c2].snapshot # <<>>
        /\ call[c2].failed = Range(call[c2].snapshot)

\* The messages emitted for product p, in the order their broadcasts started.
EmittedFor(p) ==
    LET F[i \in 0..Len(emitted)] ==
            IF i = 0 THEN <<>>
            ELSE IF emitted[i].product_id = p
                 THEN Append(F[i - 1], emitted[i].counts)
                 ELSE F[i - 1]
    IN  F[Len(emitted)]

\* C8: for every product and option, a broadcast that starts later never
\* carries a smaller counter than an earlier broadcast for the same product.
C8_BroadcastsMonotonic ==
    \A i, j \in 1..Len(emitted) :
        (i < j /\ emitted[i].product_id = emitted[j].product_id) =>
            \A o \in DOMAIN emitted[i].counts :
                emitted[i].counts[o] <= emitted[j].counts[o]

\* The calls that voted for option o on product p and got past validation.
VotesFor(p, o) ==
    {c \in Calls : /\ call[c].pc \in {"computed", "persisted", "broadcasting", "done"}
                   /\ call[c].response.code \in {0, 200}
                   /\ call[c].product_id = p
                   /\ call[c].option = o}

\* The calls that got as far as loading product p (no 404).
CallsOn(p) ==
    {c \in Calls : call[c].pc # "idle" /\ call[c].product_id = p
                       /\ call[c].response.code # 404}

\* C9: when exactly two calls have voted on a freshly created product, both
\* for raffle, and both have returned after their broadcasts went out, the
\* stored counts are raffle = 2 with every other counter 0, and the two
\* messages emitted for the product carry raffle = 1 and then raffle = 2.
C9_TwoRaffleVotes ==
    \A p \in DOMAIN store :
        (/\ Cardinality(VotesFor(p, "raffle")) = 2
         /\ CallsOn(p) = VotesFor(p, "raffle")
         /\ \A c \in VotesFor(p, "raffle") : call[c].pc = "done" /\ ~call[c].raised) =>
            /\ store[p].counts = [ZeroCounts EXCEPT !["raffle"] = 2]
            /\ EmittedFor(p) = << [ZeroCounts EXCEPT !["raffle"] = 1],
                                  [ZeroCounts EXCEPT !["raffle"] = 2] >>

\* C10: a websocket registered by ws_product whose receive loop ended with
\* WebSocketDisconnect had disconnect called exactly once, with the
\* product_id it was registered under, and is in no list of the registry;
\* disconnect is called for no other websocket; a broadcast that starts
\* afterwards does not have it in its snapshot, and send attempts only go to
\* channels of the snapshot.
C10_DisconnectUnregistersOnce ==
    [][/\ \A w \in Channels :
            /\ ws'[w].pc = "disconnected" =>
                   /\ disconnects'[w] = << ws'[w].product_id >>
                   /\ \A t \in DOMAIN active' : w \notin Range(active'[t])
            /\ ws'[w].pc # "disconnected" => disconnects'[w] = <<>>
            /\ ws[w].pc \in {"receiving", "disconnected", "aborted"} =>
                   ws'[w].product_id = ws[w].product_id
            /\ ws[w].pc \in {"disconnected", "aborted"} => ws'[w] = ws[w]
       /\ \A c \in Calls :
            /\ Starts(c) =>
                   \A w \in Channels :
                       ws[w].pc = "disconnected" => w \notin Range(call'[c].snapshot)
            /\ call[c].pc = "broadcasting" =>
                   /\ call'[c].snapshot = call[c].snapshot
                   /\ Range(call'[c].attempts) \subseteq Range(call[c].snapshot)
      ]_vars

C10_Witness ==
    \E w \in Channels, c1, c2 \in Calls :
        /\ ws[w].pc = "disconnected"
        /\ call[c1].product_id = ws[w].product_id
        /\ call[c2].product_id = ws[w].product_id
        /\ w \in Range(call[c1].attempts)
        /\ call[c2].pc = "done"
        /\ call[c2].attempts # <<>>
        /\ w \notin Range(call[c2].snapshot)

\* C11: whatever create_product and cast_vote calls have run, in whatever
\* interleaving, the counts of every stored product have exactly the five
\* option keys and every value is a natural number.
C11_CountsKeysFixed ==
    \A p \in DOMAIN store :
        /\ DOMAIN store[p].counts = VoteOption
        /\ \A o \in DOMAIN store[p].counts : store[p].counts[o] \in Nat

C11_Witness ==
    \E i \in 1..Len(created), c1, c2 \in Calls :
        /\ c1 # c2
        /\ call[c1].pc = "done" /\ call[c1].response.code = 200
        /\ call[c2].pc = "done" /\ call[c2].response.code = 200
        /\ call[c1].product_id = created[i].id
        /\ call[c2].product_id = created[i].id
        /\ call[c1].option # call[c2].option
        /\ store[created[i].id].counts # ZeroCounts

\* C12: create_product stores and returns a document with status in_voting,
\* zero for each of the five options, vote_start_at equal to the clock reading
\* when the payload carries none and to the payload's value otherwise, and
\* vote_end_at equal to vote_start_at plus the window of 72 hours.
C12_CreateProduct ==
    [][created' # created =>
         LET r == created'[Len(created')]
         IN  /\ Len(created') = Len(created) + 1
             /\ r.id \notin DOMAIN store
             /\ r.id \in DOMAIN store'
             /\ store'[r.id] = r.data
             /\ \A q \in DOMAIN store : store'[q] = store[q]
             /\ r.data.status = "in_voting"
             /\ r.data.counts = [o \in VoteOption |-> 0]
             /\ r.start = NoStart => r.data.vote_start_at = r.now
             /\ r.start # NoStart => r.data.vote_start_at = r.start
             /\ r.data.vote_end_at = r.data.vote_start_at + 72
      ]_vars

C12_Witness ==
    \E i \in 1..Len(created) :
        /\ created[i].start = NoStart
        /\ created[i].data.vote_end_at = created[i].now + 72
        /\ store[created[i].id].status = "in_voting"

\* C13: a broadcast iterates the copy of the product's list it made when it
\* started: the copy never changes while connect and disconnect run between
\* its sends, every send attempt goes to the next channel of the copy whether
\* or not that channel is still registered, and when the broadcast ends the
\* attempts are exactly the copy, each channel once; a channel registered
\* meanwhile is not in the copy and gets no attempt.
C13_SnapshotIteration ==
    [][\A c \in Calls :
         /\ Starts(c) =>
               /\ call'[c].snapshot = Registered(call[c].product_id)
               /\ call'[c].todo = call'[c].snapshot
               /\ call'[c].attempts = <<>>
         /\ call[c].pc = "broadcasting" =>
               /\ call'[c].snapshot = call[c].snapshot
               /\ call'[c].attempts # call[c].attempts =>
                      /\ Len(call[c].attempts) < Len(call[c].snapshot)
                      /\ call'[c].attempts =
                             Append(call[c].attempts,
                                    call[c].snapshot[Len(call[c].attempts) + 1])
               /\ call'[c].pc = "done" =>
                      /\ call[c].attempts = call[c].snapshot
                      /\ NoDuplicates(call[c].attempts)
      ]_vars

C13_Witness ==
    \E c \in Calls, w1, w2 \in Channels :
        /\ call[c].pc = "broadcasting"
        /\ w1 \in Range(call[c].todo)
        /\ ws[w1].pc = "disconnected"
        /\ ws[w2].pc = "receiving"
        /\ ws[w2].product_id = call[c].product_id
        /\ w2 \notin Range(call[c].snapshot)

RECURSIVE SumOver(_, _)
SumOver(f, S) ==
    IF S = {} THEN 0
    ELSE LET x == CHOOSE y \in S : TRUE
         IN  f[x] + SumOver(f, S \ {x})

\* The total of a counts mapping.
SumCounts(f) == SumOver(f, DOMAIN f)

\* The calls on product p that got past validation.
Voting(p) ==
    {c \in Calls : /\ call[c].pc \in {"computed", "persisted", "broadcasting", "done"}
                   /\ call[c].response.code \in {0, 200}
                   /\ call[c].product_id = p}

\* C14: cast_vote is a read-modify-write of the whole counts mapping: when the
\* only two calls voting on a product loaded the same counts (both read before
\* either wrote) and both have written, the stored total is the loaded total
\* plus 1, not plus 2: one of the two votes is lost, though both calls succeed.
C14_LostUpdate ==
    \A c1, c2 \in Calls :
        (/\ c1 # c2
         /\ call[c1].product_id = call[c2].product_id
         /\ Voting(call[c1].product_id) = {c1, c2}
         /\ call[c1].pc \in {"persisted", "broadcasting", "done"}
         /\ call[c2].pc \in {"persisted", "broadcasting", "done"}
         /\ call[c1].product.counts = call[c2].product.counts) =>
            SumCounts(store[call[c1].product_id].counts)
                = SumCounts(call[c1].product.counts) + 1

C14_Witness ==
    \E c1, c2 \in Calls :
        /\ c1 # c2
        /\ call[c1].product_id = call[c2].product_id
        /\ call[c1].pc = "done" /\ call[c1].response.code = 200
        /\ call[c2].pc = "done" /\ call[c2].response.code = 200
        /\ call[c1].product.counts = call[c2].product.counts
        /\ call[c1].option # call[c2].option
        /\ SumCounts(store[call[c1].product_id].counts)
               < SumCounts(call[c1].product.counts) + 2

\* C15: a message is handed to broadcast only by a call that has completed its
\* store update, and it carries exactly the counts that call wrote, which are
\* also the counts the call returns; a call rejected with 404 or 400 ends in
\* its loading step, writes nothing and emits nothing.
C15_BroadcastAfterPersist ==
    [][/\ emitted' # emitted =>
            \E c \in Calls :
                /\ call[c].pc = "persisted"
                /\ call'[c].pc = "broadcasting"
                /\ store' = store
                /\ emitted' = Append(emitted,
                                  [product_id |-> call[c].product_id,
                                   counts |-> call[c].counts])
       /\ \A c \in Calls :
            /\ (call'[c].pc = "persisted" /\ call[c].pc # "persisted") =>
                   /\ call[c].pc = "computed"
                   /\ store'[call[c].product_id].counts = call[c].counts
                   /\ emitted' = emitted
            /\ call[c].pc \in {"persisted", "broadcasting"} =>
                   /\ call'[c].counts = call[c].counts
                   /\ call'[c].pc = "done" =>
                          /\ call'[c].response.code = 200
                          /\ call'[c].response.counts = call[c].counts
            /\ Loads(c) =>
                   /\ store' = store
                   /\ emitted' = emitted
                   /\ call'[c].response.code \in {400, 404} <=> call'[c].pc = "done"
            /\ Returned(c)
      ]_vars

C15_Witness ==
    \E c1, c2 \in Calls :
        /\ call[c1].pc = "done" /\ ~call[c1].raised
        /\ call[c1].response.code = 200
        /\ emitted = << [product_id |-> call[c1].product_id,
                         counts |-> call[c1].response.counts] >>
        /\ store[call[c1].product_id].counts = call[c1].response.counts
        /\ call[c2].pc = "done"
        /\ call[c2].response.code = 400
        /\ call[c2].product_id = call[c1].product_id

\* C16: no step of a broadcast (its start, a send that succeeds or fails, its
\* end) changes the registry; the registry changes only in a connect or
\* disconnect step of a websocket handler, and a channel whose send failed
\* leaves the registry only in the disconnect step of its own handler.
C16_BroadcastKeepsRegistry ==
    [][/\ \A c \in Calls :
            (call[c].pc \in {"persisted", "broadcasting"} /\ call'[c] # call[c]) =>
                active' = active
       /\ active' # active => (call' = call /\ ws' # ws)
       /\ \A c \in Calls : \A w \in call[c].failed :
            (/\ Contains(Conns(active, call[c].product_id), w)
             /\ ~Contains(Conns(active', call[c].product_id), w)) =>
                /\ ws[w].pc = "receiving"
                /\ ws'[w].pc = "disconnected"
                /\ disconnects'[w] = Append(disconnects[w], call[c].product_id)
      ]_vars

C16_Witness ==
    \E c \in Calls : \E w \in Channels :
        /\ call[c].pc = "done"
        /\ w \in call[c].failed
        /\ ws[w].pc = "receiving"
        /\ active = [t \in {call[c].product_id} |-> call[c].snapshot]
        /\ Contains(call[c].snapshot, w)

\* C17: while a broadcast has a send outstanding (the head of what is left of
\* its copy), every other channel's handler can still take its step: an open
\* channel can disconnect, and the next channel to open can connect to any
\* topic, the broadcast's or another; the step is enabled in that very state,
\* before the send has finished.
C17_RegistryNotStalled ==
    \A c \in Calls :
        (call[c].pc = "broadcasting" /\ call[c].todo # <<>>) =>
            \A w \in Channels \ {Head(call[c].todo)} :
                /\ ws[w].pc = "receiving" => ENABLED ws_disconnect(w)
                /\ (/\ ws[w].pc = "idle"
                    /\ IF w = 1 THEN TRUE ELSE ws[w - 1].pc # "idle") =>
                       \A p \in ProductIds : ENABLED ws_connect(w, p)

C17_Witness ==
    \E c \in Calls : \E w \in Channels :
        /\ call[c].pc = "broadcasting"
        /\ call[c].todo # <<>>
        /\ w # Head(call[c].todo)
        /\ ~Contains(call[c].snapshot, w)
        /\ ws[w].pc = "receiving"
        /\ ws[w].product_id # call[c].product_id
        /\ Contains(Conns(active, ws[w].product_id), w)
        /\ ENABLED ws_disconnect(w)

\* C18: in every step of a cast_vote call, accepted or rejected, the set of
\* stored products and every product's status and other non-counts fields
\* stay as they were; counts change only in the call's write step and only
\* for the product the call voted on.
C18_VoteKeepsStatus ==
    [][\A c \in Calls :
          call'[c] # call[c] =>
              /\ DOMAIN store' = DOMAIN store
              /\ \A p \in DOMAIN store :
                    /\ store'[p].status = store[p].status
                    /\ [store'[p] EXCEPT !.counts = store[p].counts] = store[p]
                    /\ (p # call[c].product_id \/ ~Persists(c)) =>
                           store'[p] = store[p]
      ]_vars

C18_Witness ==
    \E c \in Calls :
        /\ call[c].pc = "done"
        /\ call[c].response.code = 200
        /\ DOMAIN store = {1, 2}
        /\ store[call[c].product_id].counts = call[c].counts
        /\ store[call[c].product_id] =
               [call[c].product EXCEPT !.counts = call[c].counts]
        /\ \A p \in DOMAIN store \ {call[c].product_id} :
               /\ store[p].counts = ZeroCounts
               /\ \E i \in 1..Len(created) :
                      created[i].id = p /\ created[i].data = store[p]

Occurrences(act, w) ==
    {<<t, i>> \in (DOMAIN act) \X (1..MaxChannels + 1) :
        i <= Len(act[t]) /\ act[t][i] = w}

\* C19: each channel occurs at most once in the whole registry, and when it
\* occurs it is under the topic its handler was opened for, with the handler
\* past its connect step.
C19_ChannelListedOnce ==
    \A w \in Channels :
        /\ Cardinality(Occurrences(active, w)) <= 1
        /\ \A t \in DOMAIN active :
              Contains(active[t], w) =>
                  /\ ws[w].pc \in {"receiving", "aborted"}
                  /\ ws[w].product_id = t
        /\ \A t \in DOMAIN active : Len(active[t]) <= MaxChannels

C19_Witness ==
    /\ \A w \in Channels : Cardinality(Occurrences(active, w)) = 1
    /\ \E t \in DOMAIN active : Len(active[t]) = MaxChannels
    /\ \E c \in Calls : call[c].pc = "done" /\ Len(call[c].attempts) = MaxChannels

\* C20: for every product and every option, the stored counter never
\* decreases from one state to the next.
C20_CountersNeverDecrease ==
    [][\A p \in DOMAIN store : \A o \in DOMAIN store[p].counts :
          /\ o \in DOMAIN store'[p].counts
          /\ store'[p].counts[o] >= store[p].counts[o]
      ]_vars

====
